---- MODULE Spec2Model ----
(***************************************************************************)
(* Staged pass scheduler of dpcomp (src/dpcomp/src/compiler/compiler.cpp): *)
(* PassManagerStage, PassManagerSchedule (construction and run loop) and   *)
(* CompilerContextImpl::run (diagnostic capture and the fatal error).      *)
(*                                                                         *)
(* Assertions are modelled as enabled: a failed assert aborts the process  *)
(* (pc = "aborted").  Undefined behaviour is a separate outcome            *)
(* (pc = "ub").                                                            *)
(***************************************************************************)
EXTENDS Integers, Sequences, FiniteSets, TLC

\* ---------------------------------------------------------------- bounds
MaxStages == 3      \* add_stage calls the registry makes
MaxJumps  == 2      \* jump names declared over the whole description
MaxDiags  == 1      \* error diagnostics captured within one run call
MaxRaised == 3      \* diagnostics handed to diag_handler exercised alone
MaxNames  == 2      \* names handed to get_jump exercised alone
MaxCalls  == 2      \* calls of run on one CompilerContext, concurrent model

\* ------------------------------------------------------- values and types
NULL     == 0       \* nullptr (a stage pointer that points nowhere)
NullAttr == <<>>    \* a null mlir::StringAttr

SUCCESS == "success"
FAILURE == "failure"
NONE    == "none"
\* An error thrown out of a stage run instead of a result.
THROWN  == "thrown"

\* Variant: the result test inverted (succeeded where failed was meant).
failed_inverted(res) == res = SUCCESS

\* mlir::failed(result)
failed(res) == res = FAILURE

\* The character storage the registry's llvm::StringRef values point into.
\* A StringRef is (data pointer, length); its value is the characters it
\* covers.  Two StringRefs can hold equal strings at different addresses
\* (data 1 and 3), or different strings at one address (lengths 1 and 2).
Mem == <<"a", "b", "a">>

StringRef(d, l) == [data |-> d, len |-> l]

RegistryStrings ==
    { StringRef(1, 0), StringRef(1, 1), StringRef(2, 1), StringRef(3, 1),
      StringRef(1, 2) }

empty(ref)    == ref.len = 0
getValue(ref) == SubSeq(Mem, ref.data, ref.data + ref.len - 1)

\* mlir::StringAttr::get(&ctx, str): attributes are uniqued by content, so a
\* StringAttr is identified by the string it holds.
StringAttr_get(ref) == getValue(ref)

\* Marker names passes may write onto the module.
MarkerNames == { getValue(r) : r \in { q \in RegistryStrings : ~empty(q) } }

\* A freshly constructed PassManagerStage: no jumps, next_stage = nullptr.
PassManagerStage == [jumps |-> <<>>, next_stage |-> NULL]

\* ------------------------------------------------------ PassManagerStage
add_jump_asserts(name, stage) == name # NullAttr /\ stage # NULL

add_jump(obj, name, stage) ==
    [obj EXCEPT !.jumps = Append(@, [first |-> name, second |-> stage])]

\* Variant: the two loops swapped, so the order of the names on the module
\* decides which edge is taken.
RECURSIVE get_jump_by_marker_order(_, _, _)
get_jump_by_marker_order(jumps, names, k) ==
    IF k > Len(names)
    THEN [first |-> NULL, second |-> NullAttr]
    ELSE IF \E i \in 1..Len(jumps) : jumps[i].first = names[k]
         THEN LET i == CHOOSE i \in 1..Len(jumps) :
                         /\ jumps[i].first = names[k]
                         /\ \A j \in 1..(i - 1) : jumps[j].first # names[k]
              IN [first |-> jumps[i].second, second |-> jumps[i].first]
         ELSE get_jump_by_marker_order(jumps, names, k + 1)

RECURSIVE get_jump_from(_, _, _)
get_jump_from(jumps, names, i) ==
    IF i > Len(jumps)
    THEN [first |-> NULL, second |-> NullAttr]
    ELSE IF \E k \in 1..Len(names) : jumps[i].first = names[k]
         THEN [first |-> jumps[i].second, second |-> jumps[i].first]
         ELSE get_jump_from(jumps, names, i + 1)

\* Variant: only the first of the names looked at.
get_jump_first_name(obj, names) ==
    IF names.present /\ Len(names.value) > 0
    THEN get_jump_from(obj.jumps, <<names.value[1]>>, 1)
    ELSE [first |-> NULL, second |-> NullAttr]

\* Variant: the name comparison lost, so the first edge is taken whenever
\* the module carries any marker.
get_jump_uncompared(obj, names) ==
    IF names.present /\ Len(names.value) > 0 /\ Len(obj.jumps) > 0
    THEN [first |-> obj.jumps[1].second, second |-> obj.jumps[1].first]
    ELSE [first |-> NULL, second |-> NullAttr]

\* names is an mlir::ArrayAttr: null (present = FALSE) or a list of names.
get_jump(obj, names) ==
    IF names.present
    THEN get_jump_from(obj.jumps, names.value, 1)
    ELSE [first |-> NULL, second |-> NullAttr]

set_next_stage_asserts(obj, stage) == obj.next_stage = NULL /\ stage # NULL

\* Variant: the assignment forgotten after the asserts.
set_next_stage_unassigned(obj, stage) == obj

set_next_stage(obj, stage) == [obj EXCEPT !.next_stage = stage]

get_next_stage(obj) == obj.next_stage

\* ------------------------------------------------------------- variables
VARIABLES
    pc,           \* position of the program
    stages_temp,  \* constructor local: StageDesc list (name, jumps; stage i)
    stages_map,   \* constructor local: name.data() -> stage
    stage_objs,   \* the PassManagerStage objects, by creation index
    stages,       \* PassManagerSchedule::stages (the owned array)
    module,       \* the mlir::ModuleOp handed to run
    handler,      \* TRUE while run's diagnostic handler is installed
    err,          \* run's local buffer behind err_stream
    raised,       \* history: error diagnostics the passes raised in this call
    current,      \* PassManagerSchedule::run's local stage pointer
    visited,      \* history: the stages this run call has executed
    stage_result, \* what the last current->run(module) returned
    result,       \* what schedule.run(module) returned
    fatal,        \* texts this run call handed to report_error
    settings,     \* the CompilerContext::Settings the schedule is built with
    multithreading, \* whether the mlir::MLIRContext has threading enabled
    arg,          \* argument of a member function exercised on its own
    ret,          \* what that function has returned
    engine,       \* concurrent calls: handlers registered per MLIRContext
    calls         \* concurrent calls: each CompilerContext's call of run

ctor_vars == <<stages_temp, stages_map, stage_objs, stages>>
run_vars  == <<module, handler, err, raised, current, visited, stage_result,
               result, fatal>>
env_vars  == <<settings, multithreading>>
fn_vars   == <<arg, ret>>
conc_vars == <<engine, calls>>
vars == <<pc, ctor_vars, run_vars, env_vars, fn_vars, conc_vars>>

TotalJumps ==
    LET RECURSIVE Sum(_)
        Sum(i) == IF i = 0 THEN 0 ELSE Len(stages_temp[i].jumps) + Sum(i - 1)
    IN Sum(Len(stages_temp))

JumpLists(n) == UNION { [1..k -> RegistryStrings] : k \in 0..n }

\* The settings fields the stage constructor's effect on the context
\* depends on: irDumpStderr, and whether the optional irPrinting is set.
Settings == [irDumpStderr : BOOLEAN, irPrinting : BOOLEAN]

\* Nothing built and no call of run made.
NothingBuilt ==
    /\ stages_temp = <<>>
    /\ stages_map = <<>>
    /\ stage_objs = <<>>
    /\ stages = [allocated |-> FALSE, elems |-> <<>>]
    /\ module = [has_markers |-> FALSE, markers |-> {}, body |-> 0]
    /\ handler = FALSE
    /\ err = <<>>
    /\ raised = <<>>
    /\ current = NULL
    /\ visited = {}
    /\ stage_result = NONE
    /\ result = NONE
    /\ fatal = <<>>

\* A context and a registry handed to the constructor.
InitSchedule ==
    /\ pc = "ctor_sink"
    /\ NothingBuilt
    /\ arg = NONE
    /\ ret = NONE
    /\ engine = NONE
    /\ calls = NONE

\* The schedule built with the default settings (no IR printing) on a
\* context that has threading enabled, as a new MLIRContext has.
Init ==
    /\ InitSchedule
    /\ settings = [irDumpStderr |-> FALSE, irPrinting |-> FALSE]
    /\ multithreading = TRUE

\* The schedule built with any settings on any context.
InitSettings ==
    /\ InitSchedule
    /\ settings \in Settings
    /\ multithreading \in BOOLEAN

\* ------------------------------------------------------- MLIRContext
disableMultithreading(enabled) == FALSE

\* Variant: the context left alone when irPrinting is set.
PassManagerStage_ctor_dump_only(enabled, s) ==
    IF s.irDumpStderr THEN disableMultithreading(enabled) ELSE enabled

\* The PassManagerStage constructor's effect on the context's threading.
PassManagerStage_ctor(enabled, s) ==
    LET dumped == IF s.irDumpStderr THEN disableMultithreading(enabled)
                  ELSE enabled
    IN IF s.irPrinting THEN disableMultithreading(dumped) ELSE dumped

\* ------------------------------------------- PassManagerSchedule (ctor)
stages_map_count(key) == IF key \in DOMAIN stages_map THEN 1 ELSE 0

\* The registry calls add_stage(name, jumps, pm_init_func) through the sink.
add_stage(name, jumps) ==
    /\ pc = "ctor_sink"
    /\ LET prev_stage == IF DOMAIN stages_map = {} THEN NULL
                         ELSE Len(stages_temp)
           new_stage  == Len(stages_temp) + 1
       IN IF \/ empty(name)
             \/ stages_map_count(name.data) # 0
             \/ /\ prev_stage # NULL
                /\ ~set_next_stage_asserts(stage_objs[prev_stage], new_stage)
          THEN /\ pc' = "aborted"
               /\ UNCHANGED <<stages_temp, stages_map, stage_objs, stages>>
          ELSE /\ stages_temp' = Append(stages_temp,
                                   [name |-> name, jumps |-> jumps])
               /\ stages_map' = [k \in DOMAIN stages_map \cup {name.data} |->
                                   IF k \in DOMAIN stages_map
                                   THEN stages_map[k] ELSE new_stage]
               /\ stage_objs' =
                    LET objs == Append(stage_objs, PassManagerStage)
                    IN IF prev_stage # NULL
                       THEN [objs EXCEPT ![prev_stage] =
                                set_next_stage(@, new_stage)]
                       ELSE objs
               /\ UNCHANGED <<pc, stages>>
    /\ multithreading' = IF empty(name) THEN multithreading
                         ELSE PassManagerStage_ctor(multithreading, settings)
    /\ UNCHANGED <<run_vars, settings, fn_vars, conc_vars>>

\* Variant: a jump name only looked up, none of the asserts on it.
JumpResolves_found_only(jump) == jump.data \in DOMAIN stages_map

\* The jump-resolution loops that follow sink(add_stage).
JumpResolves(jump) ==
    /\ ~empty(jump)
    /\ jump.data \in DOMAIN stages_map
    /\ stages_map[jump.data] # NULL
    /\ add_jump_asserts(StringAttr_get(jump), stages_map[jump.data])

RECURSIVE add_jumps(_, _, _)
add_jumps(obj, jumps, j) ==
    IF j > Len(jumps) THEN obj
    ELSE add_jumps(add_jump(obj, StringAttr_get(jumps[j]),
                            stages_map[jumps[j].data]), jumps, j + 1)

ResolveJumps ==
    /\ pc = "ctor_sink"
    /\ IF \A i \in 1..Len(stages_temp) :
            \A j \in 1..Len(stages_temp[i].jumps) :
                JumpResolves(stages_temp[i].jumps[j])
       THEN /\ stage_objs' = [i \in 1..Len(stage_objs) |->
                                add_jumps(stage_objs[i],
                                          stages_temp[i].jumps, 1)]
            /\ pc' = "ctor_array"
       ELSE /\ pc' = "aborted"
            /\ UNCHANGED stage_objs
    /\ UNCHANGED <<stages_temp, stages_map, stages>>
    /\ UNCHANGED <<run_vars, env_vars, fn_vars, conc_vars>>

\* stages = make_unique<...[]>(stages_temp.size()) and the move loop; the
\* constructor's locals go out of scope when func returns.
MakeStagesArray ==
    /\ pc = "ctor_array"
    /\ stages' = [allocated |-> TRUE,
                  elems |-> [i \in 1..Len(stages_temp) |-> i]]
    /\ stages_temp' = <<>>
    /\ stages_map' = <<>>
    /\ pc' = "ready"
    /\ UNCHANGED stage_objs
    /\ UNCHANGED <<run_vars, env_vars, fn_vars, conc_vars>>

\* ------------------------------------------------- module marker channel
\* The "pipeline.jump_markers" attribute of the module: absent, or a list
\* holding the marker names that are present, in some order.
Orderings(S) ==
    { s \in [1..Cardinality(S) -> S] : { s[i] : i \in DOMAIN s } = S }

get_pipeline_jump_markers(m) ==
    IF m.has_markers
    THEN { [present |-> TRUE, value |-> s] : s \in Orderings(m.markers) }
    ELSE { [present |-> FALSE, value |-> <<>>] }

remove_pipeline_jump_marker(m, name) ==
    [m EXCEPT !.markers = @ \ {name}]

\* What the passes of a stage do to the marker channel: they add names.
add_pipeline_jump_markers(m, names) ==
    [m EXCEPT !.has_markers = @ \/ names # {},
              !.markers = @ \cup names]

\* module.print(os): the text of the module in its current state.
print(m) == <<ToString(m)>>

\* ------------------------------------------------------------ diagnostics
Diagnostics ==
    { [severity |-> "error",   msg |-> "e1", notes |-> <<"n1", "n2">>],
      [severity |-> "warning", msg |-> "w1", notes |-> <<"n3">>] }

IsError(diag) == diag.severity = "error"

RECURSIVE notes_text(_, _)
notes_text(notes, i) ==
    IF i > Len(notes) THEN <<>>
    ELSE <<"\n", notes[i]>> \o notes_text(notes, i + 1)

\* Variant: the handler filtering on the wrong severity.
diag_handler_warnings(buf, diag) ==
    IF diag.severity = "warning"
    THEN buf \o <<diag.msg>> \o notes_text(diag.notes, 1)
    ELSE buf

\* Variant: the newest diagnostic put in front of the buffer.
diag_handler_prepends(buf, diag) ==
    IF diag.severity = "error"
    THEN <<diag.msg>> \o notes_text(diag.notes, 1) \o buf
    ELSE buf

\* The lambda diag_handler of CompilerContextImpl::run.
diag_handler(buf, diag) ==
    IF diag.severity = "error"
    THEN buf \o <<diag.msg>> \o notes_text(diag.notes, 1)
    ELSE buf

RECURSIVE emit(_, _, _)
emit(buf, diags, i) ==
    IF i > Len(diags) THEN buf
    ELSE emit(diag_handler(buf, diags[i]), diags, i + 1)

\* Error diagnostics whose text is in the buffer.
ErrorCount(buf) ==
    Cardinality({ i \in 1..Len(buf) :
                    \E d \in Diagnostics :
                        d.severity = "error" /\ d.msg = buf[i] })

\* Modules a caller hands to run: unprocessed IR, any marker state.
CallerModules ==
    { [has_markers |-> FALSE, markers |-> {}, body |-> 0] } \cup
    { [has_markers |-> TRUE, markers |-> ms, body |-> 0] :
         ms \in SUBSET MarkerNames }

\* ----------------------------------------------- CompilerContextImpl::run
\* plier::scoped_diag_handler(ctx, diag_handler, body) registers the handler,
\* calls body, and erases the handler when the call is left, by body's
\* return ("return") or by an error passing through it ("error").
scoped_diag_handler_enter == TRUE

\* Variant: the handler erased after body returns only.
scoped_diag_handler_leave_unguarded(installed, how) ==
    IF how = "return" THEN FALSE ELSE installed

scoped_diag_handler_leave(installed, how) == FALSE

\* Entry of run(module): the buffer, and scoped_diag_handler installing
\* diag_handler before it calls the body.
CompilerContext_run(m) ==
    /\ pc = "ready"
    /\ module' = m
    /\ err' = <<>>
    /\ raised' = <<>>
    /\ fatal' = <<>>
    /\ handler' = scoped_diag_handler_enter
    /\ current' = NULL
    /\ visited' = {}
    /\ stage_result' = NONE
    /\ result' = NONE
    /\ pc' = "run_entry"
    /\ UNCHANGED <<ctor_vars, env_vars, fn_vars, conc_vars>>

\* Variant: the loop entered at the last element of the array.
Schedule_run_entry_last ==
    /\ pc = "run_entry"
    /\ IF ~stages.allocated
       THEN pc' = "aborted" /\ UNCHANGED current
       ELSE IF Len(stages.elems) = 0
            THEN pc' \in {"aborted", "ub"} /\ UNCHANGED current
            ELSE current' = stages.elems[Len(stages.elems)]
                 /\ pc' = "run_stage"
    /\ UNCHANGED <<ctor_vars, env_vars, fn_vars, conc_vars>>
    /\ UNCHANGED <<module, handler, err, raised, visited, stage_result,
                   result, fatal>>

\* PassManagerSchedule::run: assert(nullptr != stages); stages[0].get().
\* With an array of zero stages the read of stages[0] is out of bounds:
\* the value read is arbitrary, null (the assert in the loop fires) or not.
Schedule_run_entry ==
    /\ pc = "run_entry"
    /\ IF ~stages.allocated
       THEN pc' = "aborted" /\ UNCHANGED current
       ELSE IF Len(stages.elems) = 0
            THEN pc' \in {"aborted", "ub"} /\ UNCHANGED current
            ELSE current' = stages.elems[1] /\ pc' = "run_stage"
    /\ UNCHANGED <<ctor_vars, env_vars, fn_vars, conc_vars>>
    /\ UNCHANGED <<module, handler, err, raised, visited, stage_result,
                   result, fatal>>

\* Variant: a captured error diagnostic makes the loop treat the stage as
\* failed.
Stage_run_fails_on_error(res, written, diags) ==
    /\ pc = "run_stage"
    /\ ErrorCount(emit(err, diags, 1)) <= MaxDiags
    /\ IF current = NULL
       THEN /\ pc' = "aborted"
            /\ UNCHANGED run_vars
       ELSE /\ module' = [add_pipeline_jump_markers(module, written)
                             EXCEPT !.body = current]
            /\ err' = IF handler THEN emit(err, diags, 1) ELSE err
            /\ raised' = raised \o SelectSeq(diags, IsError)
            /\ visited' = visited \cup {current}
            /\ stage_result' = res
            /\ IF failed(res) \/ err' # err
               THEN result' = FAILURE /\ current' = NULL /\ pc' = "run_ret"
               ELSE result' = result /\ current' = current
                    /\ pc' = "run_jump"
            /\ UNCHANGED <<handler, fatal>>
    /\ UNCHANGED <<ctor_vars, env_vars, fn_vars, conc_vars>>

\* Variant: after a failed stage the markers matching its jump edges are
\* cleared before run returns.
Stage_run_clears_on_failure(res, written, diags) ==
    /\ pc = "run_stage"
    /\ ErrorCount(emit(err, diags, 1)) <= MaxDiags
    /\ IF current = NULL
       THEN /\ pc' = "aborted"
            /\ UNCHANGED run_vars
       ELSE /\ LET left == [add_pipeline_jump_markers(module, written)
                               EXCEPT !.body = current]
                   edges == stage_objs[current].jumps
                   names == { edges[i].first : i \in 1..Len(edges) }
               IN module' = IF failed(res)
                            THEN [left EXCEPT !.markers = @ \ names]
                            ELSE left
            /\ err' = IF handler THEN emit(err, diags, 1) ELSE err
            /\ raised' = raised \o SelectSeq(diags, IsError)
            /\ visited' = visited \cup {current}
            /\ stage_result' = res
            /\ IF failed(res)
               THEN result' = FAILURE /\ current' = NULL /\ pc' = "run_ret"
               ELSE result' = result /\ current' = current
                    /\ pc' = "run_jump"
            /\ UNCHANGED <<handler, fatal>>
    /\ UNCHANGED <<ctor_vars, env_vars, fn_vars, conc_vars>>

\* One current->run(module): the passes mutate the module, write markers
\* and raise diagnostics, and the pass manager reports success or failure.
\* A failure makes PassManagerSchedule::run return failure at once.
Stage_run(res, written, diags) ==
    /\ pc = "run_stage"
    /\ ErrorCount(emit(err, diags, 1)) <= MaxDiags
    /\ IF current = NULL
       THEN /\ pc' = "aborted"
            /\ UNCHANGED run_vars
       ELSE /\ module' = [add_pipeline_jump_markers(module, written)
                             EXCEPT !.body = current]
            /\ err' = IF handler THEN emit(err, diags, 1) ELSE err
            /\ raised' = raised \o SelectSeq(diags, IsError)
            /\ visited' = visited \cup {current}
            /\ stage_result' = res
            /\ IF failed(res)
               THEN result' = FAILURE /\ current' = NULL /\ pc' = "run_ret"
               ELSE result' = result /\ current' = current
                    /\ pc' = "run_jump"
            /\ UNCHANGED <<handler, fatal>>
    /\ UNCHANGED <<ctor_vars, env_vars, fn_vars, conc_vars>>

\* One current->run(module) that does not return: an error is thrown out of
\* a pass and passes through PassManagerSchedule::run to run's caller.
Stage_run_throws ==
    /\ pc = "run_stage"
    /\ current # NULL
    /\ visited' = visited \cup {current}
    /\ stage_result' = THROWN
    /\ result' = THROWN
    /\ current' = NULL
    /\ pc' = "run_ret"
    /\ UNCHANGED <<ctor_vars, env_vars, fn_vars, conc_vars>>
    /\ UNCHANGED <<module, handler, err, raised, fatal>>

\* Variant: the jump taken without remove_pipeline_jump_marker.
Schedule_next_keeps_marker(markers) ==
    /\ pc = "run_jump"
    /\ markers \in get_pipeline_jump_markers(module)
    /\ LET jump_target == get_jump(stage_objs[current], markers)
       IN IF jump_target.first # NULL
          THEN current' = jump_target.first
          ELSE current' = get_next_stage(stage_objs[current])
    /\ module' = module
    /\ IF current' # NULL
       THEN pc' = "run_stage" /\ result' = result
       ELSE pc' = "run_ret" /\ result' = SUCCESS
    /\ UNCHANGED <<ctor_vars, env_vars, fn_vars, conc_vars>>
    /\ UNCHANGED <<handler, err, raised, visited, stage_result, fatal>>

\* Variant: a jump taken only to a stage this run has not executed yet (a
\* cap of one on re-entries).
Schedule_next_capped(markers) ==
    /\ pc = "run_jump"
    /\ markers \in get_pipeline_jump_markers(module)
    /\ LET jump_target == get_jump(stage_objs[current], markers)
       IN IF jump_target.first # NULL /\ jump_target.first \notin visited
          THEN /\ module' = remove_pipeline_jump_marker(module,
                                                        jump_target.second)
               /\ current' = jump_target.first
          ELSE /\ module' = module
               /\ current' = get_next_stage(stage_objs[current])
    /\ IF current' # NULL
       THEN pc' = "run_stage" /\ result' = result
       ELSE pc' = "run_ret" /\ result' = SUCCESS
    /\ UNCHANGED <<ctor_vars, env_vars, fn_vars, conc_vars>>
    /\ UNCHANGED <<handler, err, raised, visited, stage_result, fatal>>

\* Variant: a jump edge dropped from the stage once it has been taken.
Schedule_next_consumes_edge(markers) ==
    /\ pc = "run_jump"
    /\ markers \in get_pipeline_jump_markers(module)
    /\ LET jump_target == get_jump(stage_objs[current], markers)
       IN IF jump_target.first # NULL
          THEN /\ module' = remove_pipeline_jump_marker(module,
                                                        jump_target.second)
               /\ current' = jump_target.first
               /\ stage_objs' =
                    [stage_objs EXCEPT ![current].jumps =
                        SelectSeq(@, LAMBDA e : e.first # jump_target.second)]
          ELSE /\ module' = module
               /\ current' = get_next_stage(stage_objs[current])
               /\ stage_objs' = stage_objs
    /\ IF current' # NULL
       THEN pc' = "run_stage" /\ result' = result
       ELSE pc' = "run_ret" /\ result' = SUCCESS
    /\ UNCHANGED <<stages_temp, stages_map, stages, env_vars, fn_vars, conc_vars>>
    /\ UNCHANGED <<handler, err, raised, visited, stage_result, fatal>>

\* Variant: the default next stage preferred to a jump that matches.
Schedule_next_default_first(markers) ==
    /\ pc = "run_jump"
    /\ markers \in get_pipeline_jump_markers(module)
    /\ LET jump_target == get_jump(stage_objs[current], markers)
       IN IF get_next_stage(stage_objs[current]) # NULL
             \/ jump_target.first = NULL
          THEN /\ module' = module
               /\ current' = get_next_stage(stage_objs[current])
          ELSE /\ module' = remove_pipeline_jump_marker(module,
                                                        jump_target.second)
               /\ current' = jump_target.first
    /\ IF current' # NULL
       THEN pc' = "run_stage" /\ result' = result
       ELSE pc' = "run_ret" /\ result' = SUCCESS
    /\ UNCHANGED <<ctor_vars, env_vars, fn_vars, conc_vars>>
    /\ UNCHANGED <<handler, err, raised, visited, stage_result, fatal>>

\* The rest of the loop body: read the markers, take the first declared
\* jump that matches (clearing its marker) or the default next stage, and
\* leave the loop with success when there is no next stage.
Schedule_next(markers) ==
    /\ pc = "run_jump"
    /\ markers \in get_pipeline_jump_markers(module)
    /\ LET jump_target == get_jump(stage_objs[current], markers)
       IN IF jump_target.first # NULL
          THEN /\ module' = remove_pipeline_jump_marker(module,
                                                        jump_target.second)
               /\ current' = jump_target.first
          ELSE /\ module' = module
               /\ current' = get_next_stage(stage_objs[current])
    /\ IF current' # NULL
       THEN pc' = "run_stage" /\ result' = result
       ELSE pc' = "run_ret" /\ result' = SUCCESS
    /\ UNCHANGED <<ctor_vars, env_vars, fn_vars, conc_vars>>
    /\ UNCHANGED <<handler, err, raised, visited, stage_result, fatal>>

\* report_error(msg): raises the fatal error carrying msg.
report_error(thrown, msg) == Append(thrown, msg)

\* Variant: the module dump left out of the message.
pipeline_error_text_no_dump(buf, m) ==
    <<"MLIR pipeline failed\n">> \o (buf \o <<"\n">>)

\* The failure branch's text: err_stream << "\n"; module.print(err_stream);
\* llvm::Twine("MLIR pipeline failed\n") + err.
pipeline_error_text(buf, m) ==
    <<"MLIR pipeline failed\n">> \o (buf \o <<"\n">> \o print(m))

\* Variant: the error reported whatever schedule.run returned.
CompilerContext_run_exit_always_reports ==
    /\ pc = "run_ret"
    /\ fatal' = report_error(fatal, pipeline_error_text(err, module))
    /\ err' = <<>>
    /\ handler' = scoped_diag_handler_leave(handler,
                      IF result = SUCCESS THEN "return" ELSE "error")
    /\ current' = NULL
    /\ visited' = {}
    /\ stage_result' = NONE
    /\ pc' = "ready"
    /\ UNCHANGED <<ctor_vars, env_vars, fn_vars, conc_vars>>
    /\ UNCHANGED <<module, raised, result>>

\* After schedule.run returned or threw: on failure the dump is appended
\* and the error raised; scoped_diag_handler removes the handler on the
\* way out, and run's locals go out of scope.
CompilerContext_run_exit ==
    /\ pc = "run_ret"
    /\ IF failed(result)
       THEN fatal' = report_error(fatal, pipeline_error_text(err, module))
       ELSE fatal' = fatal
    /\ err' = <<>>
    /\ handler' = scoped_diag_handler_leave(handler,
                      IF result = SUCCESS THEN "return" ELSE "error")
    /\ current' = NULL
    /\ visited' = {}
    /\ stage_result' = NONE
    /\ pc' = "ready"
    /\ UNCHANGED <<ctor_vars, env_vars, fn_vars, conc_vars>>
    /\ UNCHANGED <<module, raised, result>>

StageDiags == { <<>> } \cup { <<d>> : d \in Diagnostics }

\* The registry declares at most MaxStages stages and MaxJumps jump names.
RegistryCalls ==
    IF pc = "ctor_sink" /\ Len(stages_temp) < MaxStages
    THEN RegistryStrings \X JumpLists(MaxJumps - TotalJumps)
    ELSE {}

\* What the passes of one stage may do: markers they add (adding a marker
\* that is present changes nothing) and the diagnostics they raise.
PassEffects ==
    IF pc = "run_stage"
    THEN {SUCCESS, FAILURE} \X (SUBSET (MarkerNames \ module.markers))
            \X StageDiags
    ELSE {}

Next ==
    \/ \E call \in RegistryCalls : add_stage(call[1], call[2])
    \/ ResolveJumps
    \/ MakeStagesArray
    \/ \E m \in CallerModules : CompilerContext_run(m)
    \/ Schedule_run_entry
    \/ \E eff \in PassEffects : Stage_run(eff[1], eff[2], eff[3])
    \/ Stage_run_throws
    \/ \E markers \in get_pipeline_jump_markers(module) :
          Schedule_next(markers)
    \/ CompilerContext_run_exit

Spec == Init /\ [][Next]_vars

\* The run loop makes progress: a stage run that was started returns (the
\* claims that need it say so), and the straight-line code after it runs.
\* Nothing obliges the registry to go on or a caller to call run.
RunProgress ==
    /\ WF_vars(\E eff \in PassEffects : Stage_run(eff[1], eff[2], eff[3]))
    /\ WF_vars(\E markers \in get_pipeline_jump_markers(module) :
                  Schedule_next(markers))
    /\ WF_vars(Schedule_run_entry)
    /\ WF_vars(CompilerContext_run_exit)

SpecLive == Init /\ [][Next]_vars /\ RunProgress

SpecSettings == InitSettings /\ [][Next]_vars

\* ------------------------------------------- diag_handler on its own
\* Diagnostics the engine may hand to the handler: errors with and without
\* notes, and lower severities with notes.
HandlerInputs ==
    Diagnostics \cup
    { [severity |-> "error",  msg |-> "e2", notes |-> <<>>],
      [severity |-> "remark", msg |-> "r1", notes |-> <<"n4">>] }

RaisedSeqs == UNION { [1..k -> HandlerInputs] : k \in 0..MaxRaised }

\* arg: the diagnostics raised during one call, in order; ret: the buffer
\* behind err_stream and how many of them the handler was called with.
InitDiagHandler ==
    /\ pc = "diag_handler"
    /\ NothingBuilt
    /\ settings = [irDumpStderr |-> FALSE, irPrinting |-> FALSE]
    /\ multithreading = TRUE
    /\ arg \in RaisedSeqs
    /\ ret = [err |-> <<>>, seen |-> 0]
    /\ engine = NONE
    /\ calls = NONE

diag_handler_call ==
    /\ pc = "diag_handler"
    /\ ret.seen < Len(arg)
    /\ ret' = [err |-> diag_handler(ret.err, arg[ret.seen + 1]),
               seen |-> ret.seen + 1]
    /\ UNCHANGED <<pc, arg, ctor_vars, run_vars, env_vars, conc_vars>>

SpecDiagHandler == InitDiagHandler /\ [][diag_handler_call]_vars

\* ------------------------------------------------ get_jump on its own
\* Stage objects as construction leaves them: edges with a non-empty name
\* and a stage as target.
JumpEdges == [first : MarkerNames, second : 1..MaxStages]

StageObjects ==
    { [jumps |-> js, next_stage |-> NULL] :
         js \in UNION { [1..k -> JumpEdges] : k \in 0..MaxJumps } }

\* A null ArrayAttr, or an array of names in any order, repeats included.
NameArgs ==
    { [present |-> FALSE, value |-> <<>>] } \cup
    { [present |-> TRUE, value |-> v] :
         v \in UNION { [1..k -> MarkerNames] : k \in 0..MaxNames } }

InitGetJump ==
    /\ pc = "get_jump"
    /\ NothingBuilt
    /\ settings = [irDumpStderr |-> FALSE, irPrinting |-> FALSE]
    /\ multithreading = TRUE
    /\ arg \in [obj : StageObjects, names : NameArgs]
    /\ ret = NONE
    /\ engine = NONE
    /\ calls = NONE

get_jump_call ==
    /\ pc = "get_jump"
    /\ ret' = get_jump(arg.obj, arg.names)
    /\ pc' = "get_jump_ret"
    /\ UNCHANGED <<arg, ctor_vars, run_vars, env_vars, conc_vars>>

SpecGetJump == InitGetJump /\ [][get_jump_call]_vars

\* ------------------------- CompilerContextImpl::run, concurrent callers
\* Two CompilerContext instances, each called from a thread of its own.
\* Only what run itself does is kept: its buffer, the handler it installs
\* on the MLIRContext of its module, what schedule.run returns, and the
\* error it reports.  The instances are built on one MLIRContext or on two.
Instances == {1, 2}

\* Instance 1 is called up to MaxCalls times, one call after the other;
\* instance 2 once, at any time relative to those calls.
CallLimit(i) == IF i = 1 THEN MaxCalls ELSE 1

\* The text of the r-th diagnostic raised in call k of instance i, when it
\* is an error: every error diagnostic has a text of its own.
ErrorMsg(i, k, r) ==
    "e" \o ToString(i) \o "." \o ToString(k) \o "." \o ToString(r)

\* What the passes that run under instance i may raise in its current call.
InstanceDiags(i) ==
    { [severity |-> "error",
       msg |-> ErrorMsg(i, calls[i].n + 1, calls[i].raised + 1),
       notes |-> <<"n1">>],
      [severity |-> "warning", msg |-> "w1", notes |-> <<"n3">>] }

\* The module an instance is run on, as module.print shows it.
InstanceModule == [has_markers |-> FALSE, markers |-> {}, body |-> 0]

InitInstances ==
    /\ pc = "instances"
    /\ NothingBuilt
    /\ settings = [irDumpStderr |-> FALSE, irPrinting |-> FALSE]
    /\ multithreading = TRUE
    /\ arg = NONE
    /\ ret = NONE
    /\ engine = [c \in Instances |-> <<>>]
    /\ \E second \in Instances :
          calls = [i \in Instances |->
                     [mlir |-> IF i = 1 THEN 1 ELSE second,
                      at |-> "idle", n |-> 0, err |-> <<>>,
                      result |-> NONE, fatal |-> <<>>,
                      raised |-> 0, earlier |-> {}]]

\* mlir::DiagnosticEngine: registerHandler appends; emit offers the
\* diagnostic to the handlers from the newest to the oldest until one
\* accepts it (a handler returning void accepts); eraseHandler removes.
registerHandler(handlers, id) == Append(handlers, id)

eraseHandler(handlers, id) == SelectSeq(handlers, LAMBDA h : h # id)

\* The handler that receives an emitted diagnostic; NULL when none is
\* registered.
receiver(handlers) ==
    IF handlers = <<>> THEN NULL ELSE handlers[Len(handlers)]

\* The error messages a text holds.
messages(text) ==
    { text[k] : k \in 1..Len(text) } \cap
       { ErrorMsg(i, k, r) :
            i \in Instances, k \in 1..MaxCalls, r \in 1..MaxDiags }

\* Variant: the buffer of the instance's previous call carried over.
Instance_run_keeps_buffer(i) ==
    /\ calls[i].at = "idle"
    /\ calls[i].n < CallLimit(i)
    /\ calls' = [calls EXCEPT ![i].at = "body",
                              ![i].result = NONE, ![i].fatal = <<>>,
                              ![i].raised = 0,
                              ![i].earlier = @ \cup messages(calls[i].err)]
    /\ engine' = [engine EXCEPT ![calls[i].mlir] = registerHandler(@, i)]
    /\ UNCHANGED <<pc, ctor_vars, run_vars, env_vars, fn_vars>>

\* Entry of run(module): std::string err, and scoped_diag_handler
\* registering diag_handler on *module.getContext().  What the buffer of
\* the previous call had captured goes to the history earlier.
Instance_run(i) ==
    /\ calls[i].at = "idle"
    /\ calls[i].n < CallLimit(i)
    /\ calls' = [calls EXCEPT ![i].at = "body", ![i].err = <<>>,
                              ![i].result = NONE, ![i].fatal = <<>>,
                              ![i].raised = 0,
                              ![i].earlier = @ \cup messages(calls[i].err)]
    /\ engine' = [engine EXCEPT ![calls[i].mlir] = registerHandler(@, i)]
    /\ UNCHANGED <<pc, ctor_vars, run_vars, env_vars, fn_vars>>

\* A pass running under instance i raises a diagnostic: the engine of the
\* module's MLIRContext hands it to the receiving handler, which appends
\* to the buffer of the call that registered it.
Instance_pass_raises(i, diag) ==
    /\ calls[i].at = "body"
    /\ calls[i].raised < MaxDiags
    /\ LET h == receiver(engine[calls[i].mlir])
       IN calls' = [j \in Instances |->
                      [calls[j] EXCEPT
                          !.err = IF j = h THEN diag_handler(@, diag) ELSE @,
                          !.raised = IF j = i THEN @ + 1 ELSE @]]
    /\ UNCHANGED <<pc, ctor_vars, run_vars, env_vars, fn_vars, engine>>

\* schedule.run(module) returns.
Instance_schedule_returns(i, res) ==
    /\ calls[i].at = "body"
    /\ calls' = [calls EXCEPT ![i].at = "returned", ![i].result = res]
    /\ UNCHANGED <<pc, ctor_vars, run_vars, env_vars, fn_vars, engine>>

\* The rest of run: the failure branch, the handler erased on the way out.
\* The buffer is dead after the call; its last content stays in err.
Instance_run_exit(i) ==
    /\ calls[i].at = "returned"
    /\ calls' = [calls EXCEPT
                   ![i].at = "idle",
                   ![i].n = @ + 1,
                   ![i].fatal =
                       IF failed(calls[i].result)
                       THEN report_error(<<>>,
                               pipeline_error_text(calls[i].err,
                                                   InstanceModule))
                       ELSE <<>>]
    /\ engine' = [engine EXCEPT ![calls[i].mlir] = eraseHandler(@, i)]
    /\ UNCHANGED <<pc, ctor_vars, run_vars, env_vars, fn_vars>>

InstanceRaises ==
    UNION { {i} \X InstanceDiags(i) :
               i \in { j \in Instances : calls[j].at = "body" } }

NextInstances ==
    \/ \E i \in Instances : Instance_run(i)
    \/ \E r \in InstanceRaises : Instance_pass_raises(r[1], r[2])
    \/ \E i \in Instances, res \in {SUCCESS, FAILURE} :
          Instance_schedule_returns(i, res)
    \/ \E i \in Instances : Instance_run_exit(i)

SpecInstances == InitInstances /\ [][NextInstances]_vars

\* ================================================================ claims
NumStages == Len(stages.elems)

NoJumpEdges == \A i \in 1..Len(stage_objs) : stage_objs[i].jumps = <<>>

\* The jump edges of the stage the loop is at, and which of them have
\* their marker present on the module.
CurrentJumps == stage_objs[current].jumps

EdgeMatches(i) ==
    module.has_markers /\ CurrentJumps[i].first \in module.markers

FirstMatch(i) == EdgeMatches(i) /\ \A j \in 1..(i - 1) : ~EdgeMatches(j)

\* The text err_stream receives for one diagnostic: its message, then a
\* newline and the note for each note.
DiagText(d) ==
    <<d.msg>> \o [k \in 1..(2 * Len(d.notes)) |->
                    IF k % 2 = 1 THEN "\n" ELSE d.notes[k \div 2]]

RECURSIVE DiagsText(_)
DiagsText(ds) ==
    IF ds = <<>> THEN <<>> ELSE DiagText(Head(ds)) \o DiagsText(Tail(ds))

ErrorMessages == { d.msg : d \in { e \in Diagnostics : IsError(e) } }

HasErrorMessage(text) == \E i \in 1..Len(text) : text[i] \in ErrorMessages

\* C1: in a schedule without jump edges, a run executes the stages in
\* declaration order, none twice: the stage about to run is the one after
\* those already executed, and the run returns success only after all of
\* them ran.
C1_LinearOrder ==
    (stages.allocated /\ NoJumpEdges) =>
        /\ pc = "run_stage" =>
              current \notin visited /\ visited = 1..(current - 1)
        /\ pc = "run_jump" => visited = 1..current
        /\ (pc = "run_ret" /\ result = SUCCESS) => visited = 1..NumStages
        /\ (pc = "run_ret" /\ result = FAILURE) => stage_result = FAILURE

C1_Witness ==
    /\ pc = "run_ret" /\ result = SUCCESS
    /\ NoJumpEdges /\ NumStages = 3 /\ visited = {1, 2, 3}

\* C2 as stated: whenever an edge of the stage that just succeeded has its
\* marker present, the next stage is that edge's target and the marker is
\* gone when the target starts.
C2_AnyPresentEdgeTaken ==
    [][pc = "run_jump" =>
         \A i \in 1..Len(CurrentJumps) :
            EdgeMatches(i) =>
               /\ pc' = "run_stage"
               /\ current' = CurrentJumps[i].second
               /\ CurrentJumps[i].first \notin module'.markers]_vars

\* C2 amended: the edge taken is the first declared edge whose marker is
\* present; the next stage is its target, and its marker is gone when the
\* target starts.
C2_FirstPresentEdgeTaken ==
    [][pc = "run_jump" =>
         \A i \in 1..Len(CurrentJumps) :
            FirstMatch(i) =>
               /\ pc' = "run_stage"
               /\ current' = CurrentJumps[i].second
               /\ CurrentJumps[i].first \notin module'.markers]_vars

\* Stage 3 is about to start right after stage 1: stage 2, the default
\* next stage, was skipped through stage 1's edge to 3, whose marker is gone.
C2_Witness ==
    /\ pc = "run_stage" /\ NumStages = 3
    /\ current = 3 /\ visited = {1}
    /\ Len(stage_objs[1].jumps) = 1
    /\ stage_objs[1].jumps[1].second = 3
    /\ stage_objs[1].jumps[1].first \notin module.markers

\* C3: when edges of the stage match several present markers, the first
\* declared matching edge is taken whatever the order of the names on the
\* module, and the module loses that one marker and no other.
C3_FirstDeclaredWins ==
    [][(/\ pc = "run_jump"
        /\ Cardinality({ CurrentJumps[i].first :
                            i \in { k \in 1..Len(CurrentJumps) :
                                       EdgeMatches(k) } }) >= 2) =>
         \E i \in 1..Len(CurrentJumps) :
            /\ FirstMatch(i)
            /\ current' = CurrentJumps[i].second
            /\ module' = [module EXCEPT
                             !.markers = @ \ {CurrentJumps[i].first}]]_vars

\* Stage 1 declared x -> 3 and then y -> t with t # 3; stage 3 starts right
\* after stage 1, x is gone and y is still on the module.
C3_Witness ==
    /\ pc = "run_stage" /\ NumStages = 3
    /\ current = 3 /\ visited = {1}
    /\ Len(stage_objs[1].jumps) = 2
    /\ stage_objs[1].jumps[1].second = 3
    /\ stage_objs[1].jumps[2].second # 3
    /\ stage_objs[1].jumps[1].first # stage_objs[1].jumps[2].first
    /\ stage_objs[1].jumps[1].first \notin module.markers
    /\ stage_objs[1].jumps[2].first \in module.markers

\* C4: when no edge of the stage that just succeeded has its marker
\* present, the module is left as it is and the run goes on with the
\* stage's default next stage (it returns success when there is none).
C4_FallThrough ==
    [][(/\ pc = "run_jump"
        /\ \A i \in 1..Len(CurrentJumps) : ~EdgeMatches(i)) =>
         /\ module' = module
         /\ current' = stage_objs[current].next_stage
         /\ IF stage_objs[current].next_stage = NULL
            THEN pc' = "run_ret" /\ result' = SUCCESS
            ELSE pc' = "run_stage"]_vars

\* Stage 2 starts as the default next stage of stage 1, which declares
\* edges (none to stage 2), while the module carries markers.
C4_Witness ==
    /\ pc = "run_stage" /\ current = 2 /\ visited = {1}
    /\ stage_objs[1].jumps # <<>>
    /\ \A i \in 1..Len(stage_objs[1].jumps) :
          stage_objs[1].jumps[i].second # 2
    /\ module.markers # {}

\* C5: once a stage's run reported failure the loop is over: the schedule
\* run has returned failure and no stage is current.
C5_FailureStopsRun ==
    stage_result = FAILURE =>
        pc = "run_ret" /\ result = FAILURE /\ current = NULL

\* Stage 1 of three failed while the marker of one of its edges is present.
C5_Witness ==
    /\ pc = "run_ret" /\ result = FAILURE /\ stage_result = FAILURE
    /\ NumStages = 3 /\ visited = {1}
    /\ \E i \in 1..Len(stage_objs[1].jumps) :
          stage_objs[1].jumps[i].first \in module.markers

\* C6: no error is raised while the schedule runs; when the call is over,
\* one error was raised if the schedule run failed and none otherwise, and
\* its text is the header, the text of the error diagnostics raised in this
\* run, a newline and the dump of the module as the failing stage left it.
C6_OneErrorIffFailed ==
    /\ pc \in {"run_entry", "run_stage", "run_jump", "run_ret"} =>
          fatal = <<>>
    /\ (pc = "ready" /\ result = SUCCESS) => fatal = <<>>
    /\ (pc = "ready" /\ result = FAILURE) =>
          /\ module.body # 0
          /\ fatal = << <<"MLIR pipeline failed\n">> \o DiagsText(raised)
                           \o <<"\n", ToString(module)>> >>

C6_Witness ==
    /\ pc = "ready" /\ result = FAILURE
    /\ Len(fatal) = 1 /\ raised # <<>> /\ module.body = 2

\* C7 as stated: the text of the error raised after a failed run holds an
\* error diagnostic's message.
C7_ErrorTextHasDiagnostic ==
    (pc = "ready" /\ result = FAILURE) =>
        fatal # <<>> /\ HasErrorMessage(fatal[1])

\* C7 amended: the text ends with the dump of the module and holds the
\* message of every error diagnostic raised during the run; it holds an
\* error message exactly when a pass raised one.
C7_ErrorTextHasRaisedDiagnostics ==
    (pc = "ready" /\ result = FAILURE) =>
        /\ fatal # <<>>
        /\ fatal[1][Len(fatal[1])] = ToString(module)
        /\ \A k \in 1..Len(raised) :
              \E i \in 1..Len(fatal[1]) : fatal[1][i] = raised[k].msg
        /\ HasErrorMessage(fatal[1]) <=> raised # <<>>

\* A run failed in which no pass raised an error diagnostic.
C7_Witness ==
    /\ pc = "ready" /\ result = FAILURE
    /\ raised = <<>> /\ Len(fatal) = 1

\* C8: after a successful schedule run no error is raised, whatever was
\* captured, and the buffer is gone.
C8_SuccessRaisesNothing ==
    result = SUCCESS =>
        /\ fatal = <<>>
        /\ pc = "ready" => err = <<>>

C8_Witness ==
    /\ pc = "ready" /\ result = SUCCESS
    /\ raised # <<>> /\ fatal = <<>>

\* C9 as stated: when jump resolution has passed, every declared jump name
\* is the name of a declared stage.
C9_UnknownJumpFails ==
    pc = "ctor_array" =>
        \A i \in 1..Len(stages_temp) :
            \A j \in 1..Len(stages_temp[i].jumps) :
                \E k \in 1..Len(stages_temp) :
                    getValue(stages_temp[i].jumps[j]) =
                        getValue(stages_temp[k].name)

\* C10 as stated: a description the constructor accepts has pairwise
\* distinct stage names.
C10_DuplicateNameFails ==
    pc = "ctor_array" =>
        \A i \in 1..Len(stages_temp) :
            \A k \in 1..Len(stages_temp) :
                i # k => getValue(stages_temp[i].name) #
                            getValue(stages_temp[k].name)

\* A stage run that puts a marker on the module that was not there.
MarkerWritten == pc = "run_stage" /\ module'.markers # module.markers

\* C11: if from some point on the passes write no marker, every run whose
\* stage runs return comes to its end, and it ends with success unless a
\* stage did not succeed.
C11_RunReturns ==
    (<>[][~MarkerWritten]_vars) =>
        /\ [](pc = "run_stage" => <>(pc = "run_ret"))
        /\ []((pc = "run_ret" /\ result # SUCCESS) =>
                 stage_result # SUCCESS)

\* A run that took a jump over stage 2 has returned success.
C11_Witness ==
    /\ pc = "run_ret" /\ result = SUCCESS
    /\ NumStages = 3 /\ visited = {1, 3}

\* C12 as stated: whenever a stage completes with the marker of one of
\* its edges to an earlier stage present, that stage is entered next and
\* the marker is gone when it starts.
C12_AnyBackEdgeTaken ==
    [][pc = "run_jump" =>
         \A i \in 1..Len(CurrentJumps) :
            (EdgeMatches(i) /\ CurrentJumps[i].second < current) =>
               /\ pc' = "run_stage"
               /\ current' = CurrentJumps[i].second
               /\ CurrentJumps[i].first \notin module'.markers]_vars

\* No stage run has failed or thrown.
StagesSucceed == stage_result \in {NONE, SUCCESS}

\* When the stage without a default next stage completes, the marker of
\* one of its edges is present.
LastStageJumps ==
    (pc = "run_jump" /\ stage_objs[current].next_stage = NULL) =>
        \E i \in 1..Len(CurrentJumps) : EdgeMatches(i)

\* C12 amended: whenever a stage completes and the first of its edges with
\* a present marker leads to an earlier stage, that stage is entered next
\* with the marker cleared, however often it was entered before; and when
\* every stage run succeeds and the last stage finds a marker of its edges
\* present each time it completes, the run never returns and goes on
\* executing stages.
C12_ReentryUncapped ==
    /\ [][pc = "run_jump" =>
            \A i \in 1..Len(CurrentJumps) :
               (FirstMatch(i) /\ CurrentJumps[i].second < current) =>
                  /\ pc' = "run_stage"
                  /\ current' = CurrentJumps[i].second
                  /\ CurrentJumps[i].first \notin module'.markers]_vars
    /\ [](LastStageJumps /\ StagesSucceed) =>
          /\ [](pc # "run_ret")
          /\ [](pc = "run_stage" => []<>(pc = "run_stage"))

\* Stage 1 is entered again after stage 2, through stage 2's edge to it,
\* whose marker is gone.
C12_Witness ==
    /\ pc = "run_stage" /\ NumStages = 2
    /\ current = 1 /\ visited = {1, 2}
    /\ Len(stage_objs[2].jumps) = 1
    /\ stage_objs[2].jumps[1].second = 1
    /\ stage_objs[2].jumps[1].first \notin module.markers

RunPcs == {"run_entry", "run_stage", "run_jump", "run_ret"}

\* C13: the diagnostic handler is installed exactly while a call of run is
\* under way: it is installed at every point of the call, and it is not
\* installed before the first call or after a call has ended, whether the
\* call returned after success, raised the pipeline error, or let an error
\* thrown in a stage pass through.
C13_HandlerScoped ==
    /\ pc \in RunPcs => handler
    /\ pc \in {"ctor_sink", "ctor_array", "ready"} => ~handler

\* A call in which a stage threw has ended.
C13_Witness ==
    /\ pc = "ready" /\ result = THROWN
    /\ ~handler /\ visited = {} /\ fatal = <<>>

\* C14: the buffer holds the text of the error diagnostics raised so far
\* and nothing else: in the order raised, each followed by its notes in
\* their order, with nothing from a diagnostic of lower severity.
C14_BufferIsRaisedErrors ==
    pc = "diag_handler" =>
        ret.err = DiagsText(SelectSeq(SubSeq(arg, 1, ret.seen), IsError))

\* A warning with a note, then an error with two notes, then an error
\* without notes were raised.
C14_Witness ==
    /\ pc = "diag_handler" /\ ret.seen = 3
    /\ arg[1].severity = "warning" /\ arg[1].notes # <<>>
    /\ arg[2].msg = "e1" /\ arg[3].msg = "e2"
    /\ ret.err = <<"e1", "\n", "n1", "\n", "n2", "e2">>

\* What get_jump is to return for its argument: the first edge, in the
\* order of the stage's edge list, whose name is one of the names.
C15_Expected ==
    LET J == arg.obj.jumps
        N == IF arg.names.present
             THEN { arg.names.value[k] : k \in 1..Len(arg.names.value) }
             ELSE {}
        hits == { i \in 1..Len(J) : J[i].first \in N }
    IN IF hits = {}
       THEN [first |-> NULL, second |-> NullAttr]
       ELSE LET i == CHOOSE h \in hits : \A j \in hits : h <= j
            IN [first |-> J[i].second, second |-> J[i].first]

\* C15: get_jump returns target and name of the first edge, in the order
\* the edges were added, whose name is among the names, whatever their
\* order, and (none, none) for absent names, no names, or no edge named;
\* the call changes neither the stage nor the module.
C15_GetJumpFirstEdge ==
    /\ [](pc = "get_jump_ret" => ret = C15_Expected)
    /\ [][pc = "get_jump" =>
            arg' = arg /\ module' = module /\ stage_objs' = stage_objs]_vars

\* The names list the second edge's name first; the first edge is returned.
C15_Witness ==
    /\ pc = "get_jump_ret"
    /\ arg.obj.jumps = << [first |-> <<"b">>, second |-> 2],
                          [first |-> <<"a">>, second |-> 1] >>
    /\ arg.names = [present |-> TRUE, value |-> << <<"a">>, <<"b">> >>]
    /\ ret = [first |-> 2, second |-> <<"b">>]

\* C16: once the schedule is built, each stage's default next stage is the
\* stage declared right after it, and the last stage has none; a default
\* next stage that is set never changes; and a run starts at the first
\* stage.
C16_DefaultNextStages ==
    /\ [](stages.allocated =>
            \A i \in 1..NumStages :
               get_next_stage(stage_objs[stages.elems[i]]) =
                  IF i < NumStages THEN stages.elems[i + 1] ELSE NULL)
    /\ [][\A i \in 1..Len(stage_objs) :
             stage_objs[i].next_stage # NULL =>
                /\ i <= Len(stage_objs')
                /\ stage_objs'[i].next_stage = stage_objs[i].next_stage]_vars
    /\ [][(pc = "run_entry" /\ NumStages > 0) =>
             (pc' = "run_stage" /\ current' = stages.elems[1])]_vars

\* A run of a three-stage schedule is about to execute its first stage.
C16_Witness ==
    /\ pc = "run_stage" /\ visited = {} /\ current = 1
    /\ NumStages = 3
    /\ stage_objs[1].next_stage = 2 /\ stage_objs[2].next_stage = 3
    /\ stage_objs[3].next_stage = NULL

\* C17: when jump resolution has completed, each declared jump name that
\* is the name of a declared stage has its edge, in declaration order,
\* carrying that name and leading to a stage of that name, wherever the
\* strings are stored.
C17_JumpsResolveByName ==
    pc = "ctor_array" =>
        \A i \in 1..Len(stages_temp) :
           /\ Len(stage_objs[i].jumps) = Len(stages_temp[i].jumps)
           /\ \A j \in 1..Len(stages_temp[i].jumps) :
                 LET v == getValue(stages_temp[i].jumps[j])
                     e == stage_objs[i].jumps[j]
                 IN (\E t \in 1..Len(stages_temp) :
                        getValue(stages_temp[t].name) = v) =>
                       /\ e.first = v
                       /\ e.second \in 1..Len(stages_temp)
                       /\ getValue(stages_temp[e.second].name) = v

\* The stages a schedule owns.
OwnedStages == { stages.elems[i] : i \in 1..NumStages }

\* C18: in a schedule whose construction completed every jump edge has a
\* non-empty marker name and a target that is not null and is a stage of
\* that schedule, whether it lies before, after or at the declaring stage.
C18_EdgesWellFormed ==
    stages.allocated =>
        \A i \in 1..Len(stage_objs) :
           \A j \in 1..Len(stage_objs[i].jumps) :
              LET e == stage_objs[i].jumps[j]
              IN /\ e.first # NullAttr /\ Len(e.first) > 0
                 /\ e.second # NULL
                 /\ e.second \in OwnedStages

\* A constructed schedule whose second stage has an edge to itself and an
\* edge forward to the third.
C18_Witness ==
    /\ pc = "ready" /\ NumStages = 3
    /\ Len(stage_objs[2].jumps) = 2
    /\ stage_objs[2].jumps[1].second = 2
    /\ stage_objs[2].jumps[2].second = 3

\* C19: once the schedule is built no step changes a stage, a jump edge, a
\* default next stage or the array of stages, so every run meets the same
\* wiring, and every run starts at the first declared stage.
C19_WiringImmutable ==
    /\ [][stages.allocated =>
             (stage_objs' = stage_objs /\ stages' = stages)]_vars
    /\ [][(pc = "run_entry" /\ NumStages > 0) => current' = 1]_vars

\* A run that took the backward edge of stage 2 and then failed in stage 1
\* has ended; the edge and the default link are in place.
C19_Witness ==
    /\ pc = "ready" /\ result = FAILURE /\ module.body = 1
    /\ NumStages = 2
    /\ stage_objs[1].next_stage = 2
    /\ Len(stage_objs[2].jumps) = 1
    /\ stage_objs[2].jumps[1].second = 1
    /\ stage_objs[2].jumps[1].first \notin module.markers

TracingSet == settings.irDumpStderr \/ settings.irPrinting

\* C20: with irDumpStderr or irPrinting set, threading is disabled on the
\* context as soon as a stage exists, so whenever a stage runs, and it is
\* never enabled again; with neither set no step changes the threading
\* mode.
C20_TracingDisablesThreading ==
    /\ []((TracingSet /\ (Len(stage_objs) > 0 \/ pc = "run_stage")) =>
            ~multithreading)
    /\ [][~multithreading => ~multithreading']_vars
    /\ [][~TracingSet => multithreading' = multithreading]_vars

\* A stage built with only irPrinting set is about to run.
C20_Witness ==
    /\ pc = "run_stage" /\ current = 1
    /\ settings.irPrinting /\ ~settings.irDumpStderr
    /\ ~multithreading

\* The loop state after the current stage returned res: a function of the
\* loop state and res, in which no diagnostic and no buffer occurs.
AfterStage(res) ==
    IF res = FAILURE
    THEN <<"run_ret", NULL, FAILURE, visited \cup {current}>>
    ELSE <<"run_jump", current, result, visited \cup {current}>>

\* The loop state and the module after the jump decision: a function of
\* the current stage's edges and the markers on the module.
AfterJump ==
    LET nxt == IF \E i \in 1..Len(CurrentJumps) : FirstMatch(i)
               THEN CurrentJumps[CHOOSE i \in 1..Len(CurrentJumps) :
                                     FirstMatch(i)]
               ELSE [first |-> NullAttr,
                     second |-> stage_objs[current].next_stage]
    IN <<IF nxt.second = NULL THEN "run_ret" ELSE "run_stage",
         nxt.second,
         IF nxt.second = NULL THEN SUCCESS ELSE result,
         [module EXCEPT !.markers = @ \ {nxt.first}],
         visited>>

\* C21: what a run executes, which markers it clears and what it returns
\* are fixed by the stage outcomes and the markers the passes write: each
\* step of the loop takes the loop state and the module to values given by
\* them alone, whatever diagnostics were raised or captured.
C21_DiagnosticsDoNotSteer ==
    [][/\ (pc = "run_stage" /\ pc' # "aborted"
            /\ stage_result' \in {SUCCESS, FAILURE}) =>
             /\ <<pc', current', result', visited'>> =
                   AfterStage(stage_result')
             /\ module'.body = current
             /\ module.markers \subseteq module'.markers
       /\ pc = "run_jump" =>
             <<pc', current', result', module', visited'>> = AfterJump
       /\ pc = "run_ret" =>
             (result' = result /\ module' = module)]_vars

\* A run in which an error diagnostic was captured took a jump over stage
\* 2 and returned success.
C21_Witness ==
    /\ pc = "run_ret" /\ result = SUCCESS
    /\ raised # <<>> /\ err # <<>>
    /\ NumStages = 3 /\ visited = {1, 3}

\* C23: a run enters the loop at the first declared stage; after a stage
\* succeeded, a marker matching one of its jump edges sends the loop to the
\* target of the first such edge, before the default next stage and before
\* termination; the loop ends with success only right after the last
\* declared stage succeeded with no marker matching any of its edges, so a
\* successful run executed the first declared stage first and the last
\* declared stage last.
C23_FirstToLast ==
    /\ [][/\ (pc = "run_entry" /\ pc' = "run_stage") =>
                (current' = stages.elems[1] /\ visited' = {})
          /\ (pc = "run_jump" /\ \E i \in 1..Len(CurrentJumps) : EdgeMatches(i)) =>
                /\ pc' = "run_stage"
                /\ \E i \in 1..Len(CurrentJumps) :
                      FirstMatch(i) /\ current' = CurrentJumps[i].second
          /\ (pc = "run_jump" /\ pc' = "run_ret") =>
                /\ result' = SUCCESS
                /\ current = stages.elems[NumStages]
                /\ module.body = current
                /\ stage_result = SUCCESS
                /\ \A i \in 1..Len(CurrentJumps) : ~EdgeMatches(i)]_vars
    /\ [](result = SUCCESS =>
            /\ pc \in {"run_ret", "ready"}
            /\ pc = "run_ret" => stages.elems[1] \in visited
            /\ module.body = stages.elems[NumStages])

\* A successful run that went 1, 3, 2, 3 in a schedule of three stages:
\* stage 1's edge to 3 and stage 3's edge back to 2 were taken before the
\* default next of either, and the run ended after stage 3, whose edge no
\* longer matched.
C23_Witness ==
    /\ pc = "run_ret" /\ result = SUCCESS /\ NumStages = 3
    /\ visited = {1, 2, 3} /\ module.body = 3
    /\ Len(stage_objs[1].jumps) >= 1 /\ stage_objs[1].jumps[1].second = 3
    /\ Len(stage_objs[3].jumps) >= 1 /\ stage_objs[3].jumps[1].second = 2
    /\ stage_objs[2].jumps = <<>>
    /\ stage_objs[1].jumps[1].first # stage_objs[3].jumps[1].first
    /\ module.markers = {}

\* C24: whatever description the constructor accepted, run enters the loop
\* at an element of the stage array, reading inside the array and with both
\* assertions holding, and every iteration executes a stage the schedule
\* owns.
C24_StagesOwned ==
    /\ [][pc = "run_entry" =>
            /\ stages.allocated
            /\ NumStages >= 1
            /\ pc' = "run_stage"
            /\ current' = stages.elems[1]]_vars
    /\ [](pc = "run_stage" =>
            \E k \in 1..NumStages : current = stages.elems[k])

\* C25: a stage that fails ends the loop at once, with no look-up of a jump
\* and no marker cleared: the module then holds the markers it held when the
\* stage started together with those the stage added, and holds them
\* unchanged until run has returned the failure, a marker matching a jump
\* edge of the failing stage included.
C25_FailureLeavesMarkers ==
    [][/\ (pc = "run_stage" /\ stage_result' = FAILURE) =>
            /\ pc' = "run_ret"
            /\ result' = FAILURE
            /\ \E w \in SUBSET MarkerNames :
                  module' = [add_pipeline_jump_markers(module, w)
                               EXCEPT !.body = current]
       /\ (pc = "run_ret" /\ result = FAILURE) =>
            (pc' = "ready" /\ module' = module)]_vars

\* run has returned the failure of stage 1, the first stage to run, and the
\* marker of stage 1's jump edge is still on the module.
C25_Witness ==
    /\ pc = "ready" /\ result = FAILURE /\ fatal # <<>>
    /\ module.body = 1
    /\ Len(stage_objs[1].jumps) >= 1
    /\ module.has_markers
    /\ stage_objs[1].jumps[1].first \in module.markers

\* C22: with two instances called concurrently, no buffer and no reported
\* error text of one instance holds an error diagnostic that a pass of the
\* other instance raised.
C22_BuffersIsolated ==
    pc = "instances" =>
        \A i \in Instances : \A j \in Instances \ {i} :
           \A k \in 1..MaxCalls, r \in 1..MaxDiags :
              /\ ErrorMsg(j, k, r) \notin messages(calls[i].err)
              /\ calls[i].fatal # <<>> =>
                    ErrorMsg(j, k, r) \notin messages(calls[i].fatal[1])

\* C26: a call of run starts with an empty buffer, and the error text a
\* call reports holds no error diagnostic that an earlier call on the same
\* instance had captured.
C26_BufferStartsEmpty ==
    /\ [][pc = "instances" =>
            \A i \in Instances :
               (calls[i].at = "idle" /\ calls'[i].at = "body") =>
                  calls'[i].err = <<>>]_vars
    /\ [](pc = "instances" =>
            \A i \in Instances :
               calls[i].fatal # <<>> =>
                  messages(calls[i].fatal[1]) \cap calls[i].earlier = {})

\* The first call on instance 1 captured an error diagnostic; its second
\* call failed and reported a text without any.
C26_Witness ==
    /\ pc = "instances"
    /\ calls[1].at = "idle" /\ calls[1].n = 2
    /\ calls[1].earlier = {ErrorMsg(1, 1, 1)}
    /\ calls[1].result = FAILURE /\ calls[1].fatal # <<>>
    /\ messages(calls[1].fatal[1]) = {}
====
